---- MODULE Spec2Model ----
(***************************************************************************)
(* Model of the positive-only evaluation pipeline of PyCorrectorCompare:   *)
(*   evaluation/metrics.py   MetricsCalculator                             *)
(*   models/macbert_csc.py   MacBertCSCCorrector                           *)
(*   data/data_loader.py     DataLoader                                    *)
(*   main.py                 run_evaluation, main                          *)
(*   run_macbert_csc.py      run_from_list, run_from_file, main            *)
(*                                                                         *)
(* Four specifications share the variables:                                *)
(*   SpecCalc       a MetricsCalculator driven by its public methods       *)
(*   SpecCorrector  a MacBertCSCCorrector driven by load_model / correct   *)
(*   Spec           the entry points and run_evaluation on short corpora   *)
(*   SpecProgress   run_evaluation on corpora longer than the progress     *)
(*                  cadence                                                *)
(***************************************************************************)
EXTENDS Integers, Sequences, FiniteSets, TLC

VARIABLES
    results,          \* MetricsCalculator.results
    metrics,          \* last value returned by calculate_all_metrics
    f_score,          \* last value returned by calculate_f_score (harness)
    self_corrector,   \* MacBertCSCCorrector._corrector
    self_model,       \* BaseCorrector._model
    constructions,    \* number of MacBertCorrector(...) objects constructed
    backend_calls,    \* number of calls of the backend's correct()
    calls,            \* harness: the calls made on the object driven
    backend,          \* the outcomes the opaque backend may give per sentence
    entry,            \* which entry point started the run
    pc,               \* position of the run
    sentences,        \* run_evaluation's `sentences`
    model_name,       \* run_evaluation's `model_name`
    save_results,     \* run_evaluation's `save_results`
    verbose,          \* run_evaluation's `verbose`
    i,                \* loop index of `for i, sentence in enumerate(sentences)`
    result,           \* loop local `result`
    detailed_results, \* run_evaluation's `detailed_results`
    stdout,           \* what has been printed
    result_file,      \* the result file of this run
    returned,         \* value returned to the caller of the entry point
    exception         \* exception propagated to the caller of the entry point

vars == <<results, metrics, f_score, self_corrector, self_model, constructions,
          backend_calls, calls, backend, entry, pc, sentences, model_name,
          save_results, verbose, i, result, detailed_results, stdout,
          result_file, returned, exception>>

calcVars == <<results, metrics, f_score>>
correctorVars == <<self_corrector, self_model, constructions, backend_calls>>
runVars == <<entry, pc, sentences, model_name, save_results, verbose, i, result,
             detailed_results, stdout, result_file, returned>>

(***************************************************************************)
(* Bounds of the model.                                                    *)
(***************************************************************************)
MaxResults == 3
MaxFP == 2
MaxCalls == 4
MaxLen == 3
MaxLongLen == 201

Sentences == {"A", "B"}

RECURSIVE SeqsUpTo(_, _)
SeqsUpTo(S, n) ==
    IF n = 0 THEN {<< >>}
    ELSE LET shorter == SeqsUpTo(S, n - 1)
         IN  shorter \cup {Append(q, x) : q \in {r \in shorter : Len(r) = n - 1}, x \in S}

None == "None"

(***************************************************************************)
(* Python floats.  A float is <<n, d>>, the non-negative ratio n/d in      *)
(* lowest terms with d >= 1; <<0, 0>> stands for a raised                  *)
(* ZeroDivisionError, which every operation propagates.                    *)
(***************************************************************************)
RECURSIVE GCD(_, _)
GCD(a, b) == IF b = 0 THEN a ELSE GCD(b, a % b)

ZeroDivisionError == <<0, 0>>
Raised(x) == x[2] = 0

Float(n, d) == LET g == GCD(n, d) IN <<n \div g, d \div g>>
Zero == <<0, 1>>
One == <<1, 1>>

FAdd(x, y) ==
    IF Raised(x) \/ Raised(y) THEN ZeroDivisionError
    ELSE Float(x[1] * y[2] + y[1] * x[2], x[2] * y[2])
FMul(x, y) ==
    IF Raised(x) \/ Raised(y) THEN ZeroDivisionError
    ELSE Float(x[1] * y[1], x[2] * y[2])
FDiv(x, y) ==
    IF Raised(x) \/ Raised(y) \/ y[1] = 0 THEN ZeroDivisionError
    ELSE Float(x[1] * y[2], x[2] * y[1])

\* int / int
TrueDiv(a, b) == IF b = 0 THEN ZeroDivisionError ELSE Float(a, b)

(***************************************************************************)
(* evaluation/metrics.py                                                   *)
(***************************************************************************)
DetectionResult(sentence, has_error_detected, corrected_sentence, error_details) ==
    [sentence |-> sentence, has_error_detected |-> has_error_detected,
     corrected_sentence |-> corrected_sentence, error_details |-> error_details]

\* sum(1 for r in self.results if r.has_error_detected)
CountDetected(rs) == Len(SelectSeq(rs, LAMBDA r : r.has_error_detected))

add_result(rs, r) == Append(rs, r)
add_results(rs, more) == rs \o more
clear(rs) == << >>

\* Mutant of count_tp_fn: fn is taken to be the number of results.
count_tp_fn_NoSubtraction(rs) ==
    LET tp == CountDetected(rs)
        fn == Len(rs)
    IN  <<tp, fn>>

\* (tp, fn)
count_tp_fn(rs) ==
    LET tp == CountDetected(rs)
        fn == Len(rs) - tp
    IN  <<tp, fn>>

\* Mutant of calculate_recall: an empty calculator gives 1.0.
calculate_recall_VacuousOne(rs) ==
    IF Len(rs) = 0 THEN One
    ELSE LET tp == count_tp_fn(rs)[1]
             fn == count_tp_fn(rs)[2]
             total == tp + fn
         IN  IF total = 0 THEN Zero ELSE TrueDiv(tp, total)

calculate_recall(rs) ==
    IF Len(rs) = 0 THEN Zero
    ELSE LET tp == count_tp_fn(rs)[1]
             fn == count_tp_fn(rs)[2]
             total == tp + fn
         IN  IF total = 0 THEN Zero ELSE TrueDiv(tp, total)

\* Mutant of calculate_precision: nothing detected and fp = 0 gives 1.0.
calculate_precision_VacuousOne(rs, fp) ==
    LET tp == count_tp_fn(rs)[1]
    IN  IF tp + fp = 0 THEN One ELSE TrueDiv(tp, tp + fp)

calculate_precision(rs, fp) ==
    LET tp == count_tp_fn(rs)[1]
    IN  IF tp + fp = 0 THEN Zero ELSE TrueDiv(tp, tp + fp)

\* beta_squared * precision + recall
FScoreDenominator(rs, beta, fp) ==
    FAdd(FMul(FMul(beta, beta), calculate_precision(rs, fp)), calculate_recall(rs))

\* Mutant of calculate_f_score: the test of precision + recall is missing.
calculate_f_score_Unguarded(rs, beta, fp) ==
    LET precision == calculate_precision(rs, fp)
        recall == calculate_recall(rs)
        beta_squared == FMul(beta, beta)
    IN  FDiv(FMul(FAdd(One, beta_squared), FMul(precision, recall)),
             FScoreDenominator(rs, beta, fp))

calculate_f_score(rs, beta, fp) ==
    LET precision == calculate_precision(rs, fp)
        recall == calculate_recall(rs)
    IN  IF FAdd(precision, recall) = Zero THEN Zero
        ELSE LET beta_squared == FMul(beta, beta)
             IN  FDiv(FMul(FAdd(One, beta_squared), FMul(precision, recall)),
                      FScoreDenominator(rs, beta, fp))

Beta05 == <<1, 2>>
Beta1 == <<1, 1>>
Beta2 == <<2, 1>>

calculate_f05(rs, fp) == calculate_f_score(rs, Beta05, fp)
calculate_f1(rs, fp) == calculate_f_score(rs, Beta1, fp)
calculate_f2(rs, fp) == calculate_f_score(rs, Beta2, fp)

calculate_all_metrics(rs, fp) ==
    LET tp == count_tp_fn(rs)[1]
        fn == count_tp_fn(rs)[2]
    IN  [total_sentences |-> Len(rs),
         true_positive |-> tp,
         false_negative |-> fn,
         false_positive |-> fp,
         precision |-> calculate_precision(rs, fp),
         recall |-> calculate_recall(rs),
         f05 |-> calculate_f05(rs, fp),
         f1 |-> calculate_f1(rs, fp),
         f2 |-> calculate_f2(rs, fp)]

MetricsRaised(m) ==
    Raised(m.precision) \/ Raised(m.recall) \/ Raised(m.f05) \/ Raised(m.f1) \/ Raised(m.f2)

NoFScore == [called |-> FALSE, beta |-> Zero, fp |-> 0, value |-> Zero]

NoMetrics == [total_sentences |-> 0, true_positive |-> 0, false_negative |-> 0,
              false_positive |-> -1, precision |-> Zero, recall |-> Zero,
              f05 |-> Zero, f1 |-> Zero, f2 |-> Zero]

(***************************************************************************)
(* models/base_model.py, models/macbert_csc.py                             *)
(***************************************************************************)
\* What pycorrector's MacBertCorrector.correct may do with one sentence:
\* raise, or return (corrected_text, error_details), error_details a list of
\* tuples (wrong, correct, position), (wrong, correct) or shorter.
Fixed(sentence) == sentence \o "'"
Detail3 == <<"x", "y", 1>>
Detail2 == <<"x", "y">>
Detail1 == <<"x">>
BackendOutcomes(sentence) ==
    { [raises |-> TRUE, corrected_text |-> sentence, error_details |-> << >>],
      [raises |-> FALSE, corrected_text |-> sentence, error_details |-> << >>],
      [raises |-> FALSE, corrected_text |-> sentence, error_details |-> <<Detail1>>],
      [raises |-> FALSE, corrected_text |-> Fixed(sentence), error_details |-> <<Detail2>>],
      [raises |-> FALSE, corrected_text |-> Fixed(sentence), error_details |-> <<Detail3, Detail1>>] }

CorrectionResult(original, corrected, has_error, errors) ==
    [original |-> original, corrected |-> corrected, has_error |-> has_error,
     errors |-> errors]

NoResult == CorrectionResult("", "", FALSE, << >>)

RECURSIVE parse_errors(_)
parse_errors(error_details) ==
    IF error_details = << >> THEN << >>
    ELSE LET detail == Head(error_details)
             rest == parse_errors(Tail(error_details))
         IN  IF Len(detail) >= 3
             THEN <<[position |-> detail[3], original |-> detail[1],
                     corrected |-> detail[2]]>> \o rest
             ELSE IF Len(detail) = 2
             THEN <<[position |-> -1, original |-> detail[1],
                     corrected |-> detail[2]]>> \o rest
             ELSE rest

\* The corrector object: [corrector, model, constructions, backend_calls].
Corrector(c, m, n, k) ==
    [corrector |-> c, model |-> m, constructions |-> n, backend_calls |-> k]

NewCorrector == Corrector(None, None, 0, 0)

\* MacBertCorrector("shibing624/macbert4csc-base-chinese"): the import fails,
\* the construction fails, or a backend object is built.
LoadOutcomes == {"ok", "ImportError", "Exception"}

\* Mutant of load_model: the test of self._corrector is missing.
load_model_Reloads(self, outcome) ==
    IF outcome = "ok"
    THEN [self |-> Corrector("MacBertCorrector", "MacBertCorrector",
                             self.constructions + 1, self.backend_calls),
          raised |-> None]
    ELSE IF outcome = "ImportError"
    THEN [self |-> self, raised |-> "ImportError"]
    ELSE [self |-> self, raised |-> "RuntimeError"]

\* load_model: [self, raised]
load_model(self, outcome) ==
    IF self.corrector # None
    THEN [self |-> self, raised |-> None]
    ELSE IF outcome = "ok"
    THEN [self |-> Corrector("MacBertCorrector", "MacBertCorrector",
                             self.constructions + 1, self.backend_calls),
          raised |-> None]
    ELSE IF outcome = "ImportError"
    THEN [self |-> self, raised |-> "ImportError"]
    ELSE [self |-> self, raised |-> "RuntimeError"]

\* correct: [self, raised, value]
correct(self, sentence, loadOutcome, out) ==
    LET loaded == IF self.corrector = None
                  THEN load_model(self, loadOutcome)
                  ELSE [self |-> self, raised |-> None]
    IN  IF loaded.raised # None
        THEN [self |-> loaded.self, raised |-> loaded.raised, value |-> NoResult]
        ELSE LET after == [loaded.self EXCEPT !.backend_calls = @ + 1]
             IN  IF out.raises
                 THEN [self |-> after, raised |-> "InferenceError", value |-> NoResult]
                 ELSE LET errors == parse_errors(out.error_details)
                          has_error == Len(errors) > 0
                      IN  [self |-> after, raised |-> None,
                           value |-> CorrectionResult(sentence, out.corrected_text,
                                                      has_error, errors)]

get_model_name(self) == "MacBERT-CSC"
is_loaded(self) == self.model # None

CorrectorState == Corrector(self_corrector, self_model, constructions, backend_calls)

SetCorrector(c) ==
    /\ self_corrector' = c.corrector
    /\ self_model' = c.model
    /\ constructions' = c.constructions
    /\ backend_calls' = c.backend_calls

(***************************************************************************)
(* data/data_loader.py                                                     *)
(***************************************************************************)
\* Lines of a text file, and what str.strip() makes of them.
Lines == {"A", " B", " "}
strip(line) == CASE line = " B" -> "B" [] line = " " -> "" [] OTHER -> line

TextFile(lines) == [exists |-> TRUE, ext |-> ".txt", kind |-> "lines", content |-> lines]
JsonFile(kind, content) == [exists |-> TRUE, ext |-> ".json", kind |-> kind, content |-> content]

Files ==
    {[exists |-> FALSE, ext |-> ".txt", kind |-> "lines", content |-> << >>],
     [exists |-> TRUE, ext |-> ".csv", kind |-> "lines", content |-> <<"A">>]}
    \cup {TextFile(ls) : ls \in SeqsUpTo(Lines, MaxLen)}
    \cup {JsonFile(k, c) : k \in {"list", "sentences_dict", "other"},
                           c \in SeqsUpTo(Sentences, MaxLen)}

RECURSIVE load_from_txt(_)
load_from_txt(lines) ==
    IF lines = << >> THEN << >>
    ELSE LET line == strip(Head(lines))
         IN  IF line # "" THEN <<line>> \o load_from_txt(Tail(lines))
             ELSE load_from_txt(Tail(lines))

\* [raised, sentences]
load_from_json(file) ==
    IF file.kind = "list" THEN [raised |-> None, sentences |-> file.content]
    ELSE IF file.kind = "sentences_dict" THEN [raised |-> None, sentences |-> file.content]
    ELSE [raised |-> "ValueError", sentences |-> << >>]

\* [raised, sentences]
load_from_file(file) ==
    IF ~file.exists THEN [raised |-> "FileNotFoundError", sentences |-> << >>]
    ELSE IF file.ext = ".txt"
    THEN [raised |-> None, sentences |-> load_from_txt(file.content)]
    ELSE IF file.ext = ".json" THEN load_from_json(file)
    ELSE [raised |-> "ValueError", sentences |-> << >>]

(***************************************************************************)
(* main.py: run_evaluation                                                 *)
(***************************************************************************)
ProgressEvery == 100

Message(msg, a, b) == [msg |-> msg, a |-> a, b |-> b]
Say(out, cond, m) == IF cond THEN Append(out, m) ELSE out

\* full_results, without its timestamp
FullResults(m, detailed) ==
    [model_name |-> get_model_name(CorrectorState), metrics |-> m,
     detailed_results |-> detailed]

PersistOutcomes == {"ok", "open_fails", "write_fails"}

\* run_evaluation(sentences, model_name, save_results, verbose) is entered
Enter(e, ss, name, save, verb, out) ==
    /\ entry' = e
    /\ sentences' = ss
    /\ model_name' = name
    /\ save_results' = save
    /\ verbose' = verb
    /\ stdout' = out
    /\ pc' = "run_evaluation"
    /\ UNCHANGED <<calcVars, correctorVars, calls, backend, i, result,
                   detailed_results, result_file, returned, exception>>

\* lines 43-62: the model is selected and loaded, the calculator is created
RunEvaluationStart ==
    /\ pc = "run_evaluation"
    /\ IF model_name # "macbert_csc"
       THEN /\ exception' = "ValueError"
            /\ pc' = "raised"
            /\ UNCHANGED <<calcVars, correctorVars, i, detailed_results, stdout>>
       ELSE \E outcome \in LoadOutcomes :
              LET out1 == Say(stdout, verbose, Message("loading", 0, 0))
                  loaded == load_model(NewCorrector, outcome)
              IN  /\ SetCorrector(loaded.self)
                  /\ IF loaded.raised # None
                     THEN /\ exception' = loaded.raised
                          /\ pc' = "raised"
                          /\ stdout' = out1
                          /\ UNCHANGED <<calcVars, i, detailed_results>>
                     ELSE /\ stdout' = Say(Append(out1, Message("loaded", 0, 0)), verbose,
                                           Message("start", Len(sentences), 0))
                          /\ results' = << >>
                          /\ detailed_results' = << >>
                          /\ i' = 0
                          /\ pc' = "loop"
                          /\ UNCHANGED <<metrics, f_score, exception>>
    /\ UNCHANGED <<calls, backend, entry, sentences, model_name, save_results, verbose,
                   result, result_file, returned>>

\* Mutant of LoopCorrect: a failure of correct is caught, kept, and the
\* sentence is taken as one without error.
LoopCorrect_Swallows ==
    /\ pc = "loop"
    /\ i < Len(sentences)
    /\ \E out \in backend[sentences[i + 1]] :
         LET r == correct(CorrectorState, sentences[i + 1], "ok", out)
         IN  /\ SetCorrector(r.self)
             /\ exception' = r.raised
             /\ pc' = "fold"
             /\ result' = IF r.raised # None
                          THEN CorrectionResult(sentences[i + 1], sentences[i + 1],
                                                FALSE, << >>)
                          ELSE r.value
    /\ UNCHANGED <<calcVars, calls, backend, entry, sentences, model_name, save_results,
                   verbose, i, detailed_results, stdout, result_file, returned>>

\* line 65: result = corrector.correct(sentence)
LoopCorrect ==
    /\ pc = "loop"
    /\ i < Len(sentences)
    /\ \E out \in backend[sentences[i + 1]] :
         LET r == correct(CorrectorState, sentences[i + 1], "ok", out)
         IN  /\ SetCorrector(r.self)
             /\ IF r.raised # None
                THEN /\ exception' = r.raised
                     /\ pc' = "raised"
                     /\ UNCHANGED result
                ELSE /\ result' = r.value
                     /\ pc' = "fold"
                     /\ UNCHANGED exception
    /\ UNCHANGED <<calcVars, calls, backend, entry, sentences, model_name, save_results,
                   verbose, i, detailed_results, stdout, result_file, returned>>

\* Mutant of DetailedEntry: the index is counted from 1.
DetailedEntry_OneBased(index, sentence, r) ==
    [index |-> index + 1, original |-> sentence, corrected |-> r.corrected,
     detected |-> r.has_error, errors |-> r.errors]

DetailedEntry(index, sentence, r) ==
    [index |-> index, original |-> sentence, corrected |-> r.corrected,
     detected |-> r.has_error, errors |-> r.errors]

\* Mutant of LoopFold: only the sentences with a detected error reach the
\* calculator.
LoopFold_SkipsUndetected ==
    /\ pc = "fold"
    /\ results' = IF result.has_error
                  THEN add_result(results,
                                  DetectionResult(sentences[i + 1], result.has_error,
                                                  result.corrected, result.errors))
                  ELSE results
    /\ detailed_results' = Append(detailed_results,
                                  DetailedEntry(i, sentences[i + 1], result))
    /\ pc' = "progress"
    /\ UNCHANGED <<metrics, f_score, correctorVars, calls, backend, entry, sentences,
                   model_name, save_results, verbose, i, result, stdout, result_file,
                   returned, exception>>

\* lines 68-83: the outcome goes into the calculator and the detailed results
LoopFold ==
    /\ pc = "fold"
    /\ results' = add_result(results,
                             DetectionResult(sentences[i + 1], result.has_error,
                                             result.corrected, result.errors))
    /\ detailed_results' = Append(detailed_results,
                                  DetailedEntry(i, sentences[i + 1], result))
    /\ pc' = "progress"
    /\ UNCHANGED <<metrics, f_score, correctorVars, calls, backend, entry, sentences,
                   model_name, save_results, verbose, i, result, stdout, result_file,
                   returned, exception>>

\* Mutant of ProgressDue: the cadence is counted on the index, not on the
\* number of sentences processed.
ProgressDue_OnIndex(verb, index) == verb /\ index % ProgressEvery = 0

ProgressDue(verb, index) == verb /\ (index + 1) % ProgressEvery = 0

\* lines 86-87: the progress line, then the next iteration
LoopProgress ==
    /\ pc = "progress"
    /\ stdout' = Say(stdout, ProgressDue(verbose, i),
                     Message("progress", i + 1, Len(sentences)))
    /\ i' = i + 1
    /\ pc' = "loop"
    /\ UNCHANGED <<calcVars, correctorVars, calls, backend, entry, sentences, model_name,
                   save_results, verbose, result, detailed_results, result_file,
                   returned, exception>>

\* lines 90-102 and, without save_results, line 115
ComputeMetrics ==
    /\ pc = "loop"
    /\ i >= Len(sentences)
    /\ LET m == calculate_all_metrics(results, 0)
       IN  IF MetricsRaised(m)
           THEN /\ exception' = "ZeroDivisionError"
                /\ pc' = "raised"
                /\ UNCHANGED <<metrics, stdout, returned>>
           ELSE /\ metrics' = m
                /\ stdout' = Say(stdout, verbose, Message("summary", m.true_positive,
                                                          m.total_sentences))
                /\ IF save_results
                   THEN pc' = "save" /\ UNCHANGED returned
                   ELSE pc' = "done" /\ returned' = <<FullResults(m, detailed_results)>>
                /\ UNCHANGED exception
    /\ UNCHANGED <<results, f_score, correctorVars, calls, backend, entry, sentences,
                   model_name, save_results, verbose, i, result, detailed_results,
                   result_file>>

\* lines 105-115: the report is written to the result file and returned
Persist ==
    /\ pc = "save"
    /\ \E outcome \in PersistOutcomes :
         IF outcome = "ok"
         THEN /\ result_file' = "written"
              /\ stdout' = Say(stdout, verbose, Message("saved", 0, 0))
              /\ returned' = <<FullResults(metrics, detailed_results)>>
              /\ pc' = "done"
              /\ UNCHANGED exception
         ELSE /\ result_file' = IF outcome = "open_fails" THEN "absent" ELSE "partial"
              /\ exception' = "OSError"
              /\ pc' = "raised"
              /\ UNCHANGED <<stdout, returned>>
    /\ UNCHANGED <<calcVars, correctorVars, calls, backend, entry, sentences, model_name,
                   save_results, verbose, i, result, detailed_results>>

NextRun ==
    \/ RunEvaluationStart
    \/ LoopCorrect
    \/ LoopFold
    \/ LoopProgress
    \/ ComputeMetrics
    \/ Persist

(***************************************************************************)
(* Entry points: main.py main, run_macbert_csc.py main, and a direct call  *)
(* of run_evaluation.                                                      *)
(***************************************************************************)
Corpora == SeqsUpTo(Sentences, MaxLen)

\* The entry point returns None after printing its warning.
ReturnNone(e, ss, out) ==
    /\ entry' = e
    /\ sentences' = ss
    /\ stdout' = out
    /\ pc' = "done"
    /\ UNCHANGED <<calcVars, correctorVars, calls, backend, model_name, save_results,
                   verbose, i, result, detailed_results, result_file, returned,
                   exception>>

\* main.py main(): error_sentences comes from the dataset
main_main ==
    /\ pc = "idle"
    /\ \E error_sentences \in Corpora :
         IF error_sentences = << >>
         THEN ReturnNone("main.main", error_sentences,
                         Append(stdout, Message("warning", 0, 0)))
         ELSE Enter("main.main", error_sentences, "macbert_csc", TRUE, TRUE, stdout)

\* run_macbert_csc.py run_from_list, called by main() without --file
run_from_list ==
    /\ pc = "idle"
    /\ \E ERROR_SENTENCES \in Corpora, save \in BOOLEAN, verb \in BOOLEAN :
         IF ERROR_SENTENCES = << >>
         THEN ReturnNone("run_from_list", ERROR_SENTENCES,
                         Append(stdout, Message("warning", 0, 0)))
         ELSE Enter("run_from_list", ERROR_SENTENCES, "macbert_csc", save, verb, stdout)

\* run_macbert_csc.py run_from_file, called by main() with --file
run_from_file ==
    /\ pc = "idle"
    /\ \E file \in Files, save \in BOOLEAN, verb \in BOOLEAN :
         LET loaded == load_from_file(file)
         IN  IF loaded.raised # None
             THEN /\ entry' = "run_from_file"
                  /\ exception' = loaded.raised
                  /\ pc' = "raised"
                  /\ UNCHANGED <<calcVars, correctorVars, calls, backend, sentences,
                                 model_name, save_results, verbose, i, result,
                                 detailed_results, stdout, result_file, returned>>
             ELSE Enter("run_from_file", loaded.sentences, "macbert_csc", save, verb,
                        Append(stdout, Message("loaded_file", Len(loaded.sentences), 0)))

\* run_evaluation called by other code
call_run_evaluation ==
    /\ pc = "idle"
    /\ \E ss \in Corpora, name \in {"macbert_csc", "other"},
          save \in BOOLEAN, verb \in BOOLEAN :
         Enter("run_evaluation", ss, name, save, verb, stdout)

AnyBackend == [s \in Sentences |-> BackendOutcomes(s)]

InitObjects ==
    /\ results = << >>
    /\ metrics = NoMetrics
    /\ f_score = NoFScore
    /\ self_corrector = None
    /\ self_model = None
    /\ constructions = 0
    /\ backend_calls = 0
    /\ calls = << >>
    /\ i = 0
    /\ result = NoResult
    /\ detailed_results = << >>
    /\ stdout = << >>
    /\ result_file = "absent"
    /\ returned = << >>
    /\ exception = None

Init ==
    /\ InitObjects
    /\ backend = AnyBackend
    /\ entry = None
    /\ pc = "idle"
    /\ sentences = << >>
    /\ model_name = "macbert_csc"
    /\ save_results = TRUE
    /\ verbose = TRUE

Next ==
    \/ main_main
    \/ run_from_list
    \/ run_from_file
    \/ call_run_evaluation
    \/ RunEvaluationStart
    \/ LoopCorrect
    \/ LoopFold
    \/ LoopProgress
    \/ ComputeMetrics
    \/ Persist

Spec == Init /\ [][Next]_vars

(***************************************************************************)
(* A MetricsCalculator driven by its public methods.  metrics and f_score  *)
(* hold what the queries returned for the current results; a change of     *)
(* results drops them.  calls holds the last call that set results.        *)
(***************************************************************************)
\* The metrics read has_error_detected alone: one sentence is enough here.
HarnessResults ==
    {DetectionResult("A", d, "", << >>) : d \in BOOLEAN}

Betas == {Zero, Beta05, Beta1, Beta2}

idleRun == <<correctorVars, backend, runVars, exception>>

MetricsCalculator_add_result ==
    /\ calls' = <<"add_result">>
    /\ Len(results) < MaxResults
    /\ \E r \in HarnessResults : results' = add_result(results, r)
    /\ metrics' = NoMetrics
    /\ f_score' = NoFScore
    /\ UNCHANGED idleRun

MetricsCalculator_add_results ==
    /\ calls' = <<"add_results">>
    /\ \E more \in SeqsUpTo(HarnessResults, MaxResults - Len(results)) :
         results' = add_results(results, more)
    /\ metrics' = NoMetrics
    /\ f_score' = NoFScore
    /\ UNCHANGED idleRun

MetricsCalculator_clear ==
    /\ calls' = <<"clear">>
    /\ results' = clear(results)
    /\ metrics' = NoMetrics
    /\ f_score' = NoFScore
    /\ UNCHANGED idleRun

MetricsCalculator_calculate_all_metrics ==
    /\ \E fp \in 0..MaxFP : metrics' = calculate_all_metrics(results, fp)
    /\ UNCHANGED <<results, f_score, calls, idleRun>>

MetricsCalculator_calculate_f_score ==
    /\ \E beta \in Betas, fp \in 0..MaxFP :
         f_score' = [called |-> TRUE, beta |-> beta, fp |-> fp,
                     value |-> calculate_f_score(results, beta, fp)]
    /\ UNCHANGED <<results, metrics, calls, idleRun>>

NextCalc ==
    \/ MetricsCalculator_add_result
    \/ MetricsCalculator_add_results
    \/ MetricsCalculator_clear
    \/ MetricsCalculator_calculate_all_metrics
    \/ MetricsCalculator_calculate_f_score

SpecCalc == Init /\ [][NextCalc]_vars

(***************************************************************************)
(* A MacBertCSCCorrector driven by load_model and correct.  calls is the   *)
(* log of the calls made: the method, whether the corrector was loaded     *)
(* when it was called, and what it raised.                                 *)
(***************************************************************************)
Call(op, wasLoaded, raised) == [op |-> op, wasLoaded |-> wasLoaded, raised |-> raised]

idleOthers == <<calcVars, backend, entry, pc, sentences, model_name, save_results,
                verbose, i, detailed_results, stdout, result_file, returned>>

MacBertCSCCorrector_load_model ==
    /\ Len(calls) < MaxCalls
    /\ \E outcome \in LoadOutcomes :
         LET r == load_model(CorrectorState, outcome)
         IN  /\ SetCorrector(r.self)
             /\ calls' = Append(calls, Call("load_model", self_corrector # None, r.raised))
             /\ exception' = r.raised
    /\ UNCHANGED <<result, idleOthers>>

MacBertCSCCorrector_correct ==
    /\ Len(calls) < MaxCalls
    /\ \E sentence \in Sentences, outcome \in LoadOutcomes :
         \E out \in backend[sentence] :
           LET r == correct(CorrectorState, sentence, outcome, out)
           IN  /\ SetCorrector(r.self)
               /\ calls' = Append(calls, Call("correct", self_corrector # None, r.raised))
               /\ exception' = r.raised
               /\ result' = r.value
    /\ UNCHANGED idleOthers

NextCorrector ==
    \/ MacBertCSCCorrector_load_model
    \/ MacBertCSCCorrector_correct

SpecCorrector == Init /\ [][NextCorrector]_vars

(***************************************************************************)
(* run_evaluation on corpora longer than the progress cadence, with a      *)
(* backend that gives every sentence the same outcome.                     *)
(***************************************************************************)
LongCorpus(n) == [k \in 1..n |-> "A"]

FixedOutcomes(s) ==
    {out \in BackendOutcomes(s) : out.raises \/ Len(out.error_details) # 1}

FixedBackends == {[s \in Sentences |-> {out}] : out \in FixedOutcomes("A")}

\* The corpus lengths at and next to the multiples of the cadence, and the longest.
LongLengths ==
    {n \in 0..MaxLongLen :
        n = MaxLongLen \/ n % ProgressEvery \in {0, 1, ProgressEvery - 1}}

InitProgress ==
    /\ InitObjects
    /\ backend \in FixedBackends
    /\ entry = "run_evaluation"
    /\ pc = "run_evaluation"
    /\ sentences \in {LongCorpus(n) : n \in LongLengths}
    /\ model_name = "macbert_csc"
    /\ save_results \in BOOLEAN
    /\ verbose \in BOOLEAN

SpecProgress == InitProgress /\ [][NextRun]_vars

(***************************************************************************)
(* Claims about the MetricsCalculator (SpecCalc).                          *)
(***************************************************************************)
Detected(rs) == {k \in DOMAIN rs : rs[k].has_error_detected}

CountsPartition(m, rs) ==
    /\ m.true_positive + m.false_negative = m.total_sentences
    /\ m.total_sentences = Len(rs)
    /\ m.true_positive = Cardinality(Detected(rs))
    /\ m.true_positive >= 0
    /\ m.false_negative >= 0

\* C1: after any sequence of add_result, add_results and clear calls the
\* reported counts satisfy true_positive + false_negative = total_sentences,
\* true_positive is the number of held results with has_error_detected, both
\* counts are >= 0, and right after clear both counts are 0.
C1_CountsPartitionResults ==
    /\ metrics.false_positive # -1 => CountsPartition(metrics, results)
    /\ \A fp \in 0..MaxFP : CountsPartition(calculate_all_metrics(results, fp), results)
    /\ calls = <<"clear">> =>
         /\ calculate_all_metrics(results, 0).true_positive = 0
         /\ calculate_all_metrics(results, 0).false_negative = 0
         /\ metrics.false_positive # -1 =>
              metrics.true_positive = 0 /\ metrics.false_negative = 0

C1_Witness ==
    /\ metrics.false_positive # -1
    /\ calls = <<"add_results">>
    /\ Len(results) = MaxResults
    /\ metrics.true_positive > 0
    /\ metrics.false_negative > 0

\* C4: for every accumulator state, every fp >= 0 and every beta >= 0
\* calculate_f_score raises no ZeroDivisionError: it returns 0.0 when
\* precision + recall = 0, and otherwise beta^2 * precision + recall > 0.
FScoreDefined(rs, beta, fp, value) ==
    LET sum == FAdd(calculate_precision(rs, fp), calculate_recall(rs))
    IN  /\ ~Raised(value)
        /\ sum = Zero => value = Zero
        /\ sum # Zero => FScoreDenominator(rs, beta, fp)[1] > 0

C4_FScoreNeverDividesByZero ==
    /\ f_score.called => FScoreDefined(results, f_score.beta, f_score.fp, f_score.value)
    /\ \A beta \in Betas, fp \in 0..MaxFP :
         FScoreDefined(results, beta, fp, calculate_f_score(results, beta, fp))

C4_Witness ==
    /\ f_score.called
    /\ f_score.beta = Zero
    /\ f_score.fp > 0
    /\ Detected(results) = {}
    /\ results # << >>

(***************************************************************************)
(* Claims about the MacBertCSCCorrector (SpecCorrector).                   *)
(***************************************************************************)
LoadFailures == {"ImportError", "RuntimeError"}
ConstructionSucceeds == \A k \in DOMAIN calls : calls[k].raised \notin LoadFailures
CorrectCalls == {k \in DOMAIN calls : calls[k].op = "correct"}

\* C7: while the construction of the backend succeeds, the backend is
\* constructed exactly once, by the first load_model or correct call; a
\* load_model call on a loaded corrector changes nothing and raises nothing;
\* a correct call on an unloaded corrector loads it and then runs the
\* inference.
C7_BackendConstructedOnce ==
    ConstructionSucceeds =>
        /\ constructions = (IF calls = << >> THEN 0 ELSE 1)
        /\ (self_corrector # None) = (calls # << >>)
        /\ is_loaded(CorrectorState) = (calls # << >>)
        /\ \A k \in DOMAIN calls :
             /\ calls[k].wasLoaded = (k > 1)
             /\ calls[k].op = "load_model" => calls[k].raised = None
             /\ calls[k].op = "correct" => calls[k].raised \in {None, "InferenceError"}
        /\ backend_calls = Cardinality(CorrectCalls)

C7_Witness ==
    /\ ConstructionSucceeds
    /\ Len(calls) = MaxCalls
    /\ calls[1].op = "correct"
    /\ calls[2].op = "load_model"
    /\ calls[3].op = "load_model"
    /\ calls[4].op = "correct"
    /\ constructions = 1

(***************************************************************************)
(* Claims about run_evaluation and the entry points (Spec).                *)
(***************************************************************************)
Completed == pc = "done" /\ returned # << >>

\* C2: when run_evaluation completes on [s0, ..., sn], detailed_results of
\* the report has n+1 entries, entry i has index i and original s_i.
C2_OrderPreserved ==
    Completed =>
        LET d == returned[1].detailed_results
        IN  /\ Len(d) = Len(sentences)
            /\ \A k \in DOMAIN d :
                 d[k].index = k - 1 /\ d[k].original = sentences[k]

C2_Witness ==
    /\ Completed
    /\ Len(sentences) = MaxLen
    /\ sentences[1] # sentences[2]
    /\ returned[1].detailed_results[2].detected
    /\ ~returned[1].detailed_results[1].detected

C5_InferenceFailureAborts ==
    /\ exception = "InferenceError" =>
         /\ pc = "raised"
         /\ ~ENABLED Next
         /\ returned = << >>
         /\ result_file = "absent"
         /\ Len(detailed_results) = i
         /\ Len(results) = i
         /\ backend_calls = i + 1
    /\ (pc = "save" \/ result_file # "absent") =>
         /\ Len(detailed_results) = Len(sentences)
         /\ backend_calls = Len(sentences)
         /\ exception \in {None, "OSError"}

C5_Witness ==
    /\ exception = "InferenceError"
    /\ i = MaxLen - 1
    /\ save_results
    /\ entry = "run_from_file"

\* C6: when save_results is set and writing the result file fails after a
\* complete pass, the report is still returned to the caller.
C6_ReportSurvivesPersistFailure ==
    (save_results /\ exception = "OSError") => returned # << >>

CorpusResolvedEmpty ==
    /\ sentences = << >>
    /\ \/ entry \in {"main.main", "run_from_list"}
       \/ /\ entry = "run_from_file"
          /\ \E k \in DOMAIN stdout : stdout[k].msg = "loaded_file"

C9_EmptyCorpusNotEvaluated ==
    /\ CorpusResolvedEmpty =>
         /\ pc = "done"
         /\ \E k \in DOMAIN stdout : stdout[k].msg = "warning"
         /\ constructions = 0
         /\ returned = << >>
         /\ result_file = "absent"
    /\ (entry # None /\ sentences # << >> /\ pc = "done") => returned # << >>

(***************************************************************************)
(* Claims about the progress lines (SpecProgress).                         *)
(***************************************************************************)
ProgressLines == SelectSeq(stdout, LAMBDA m : m.msg = "progress")

\* The progress lines due once `done` sentences are processed.
ProgressLinesDue(done) ==
    [k \in 1..(done \div ProgressEvery) |->
        Message("progress", k * ProgressEvery, Len(sentences))]

\* What the backend of this run answers for sentence k.
AnswerFor(k) ==
    correct(NewCorrector, sentences[k], "ok",
            CHOOSE out \in backend[sentences[k]] : TRUE).value

ReportOf(ss) ==
    LET rs == [k \in DOMAIN ss |->
                 DetectionResult(ss[k], AnswerFor(k).has_error,
                                 AnswerFor(k).corrected, AnswerFor(k).errors)]
    IN  [model_name |-> "MacBERT-CSC",
         metrics |-> calculate_all_metrics(rs, 0),
         detailed_results |-> [k \in DOMAIN ss |-> DetailedEntry(k - 1, ss[k], AnswerFor(k))]]

\* C10: with verbose set, a progress line (processed, N) is printed exactly
\* once for each processed count 100, 200, ..., 100 * floor(N / 100) and for
\* no other; the line for count c is printed when sentence c has been folded
\* into the calculator and the detailed results and before sentence c + 1 is
\* corrected; without verbose no line is printed and the report is the same.
C10_ProgressCadence ==
    /\ ProgressLines = (IF verbose THEN ProgressLinesDue(i) ELSE << >>)
    /\ pc = "loop" =>
         Len(results) = i /\ Len(detailed_results) = i /\ backend_calls = i
    /\ pc = "fold" =>
         Len(results) = i /\ Len(detailed_results) = i /\ backend_calls = i + 1
    /\ pc = "progress" =>
         Len(results) = i + 1 /\ Len(detailed_results) = i + 1 /\ backend_calls = i + 1
    /\ Completed => i = Len(sentences) /\ returned[1] = ReportOf(sentences)

C10_Witness ==
    /\ Completed
    /\ verbose
    /\ Len(sentences) = 2 * ProgressEvery + 1
    /\ Len(ProgressLines) = 2
    /\ returned[1].metrics.true_positive = Len(sentences)

(***************************************************************************)
(* Claims about the calculator and the detailed results of one run (Spec). *)
(***************************************************************************)
DetectedEntries(d) == {k \in DOMAIN d : d[k].detected}

\* C11: after each loop iteration of run_evaluation the calculator and the
\* detailed results agree: both hold as many entries as sentences have been
\* processed, and as many of them are detected in one as in the other; in
\* the report total_sentences = len(detailed_results) = len(corpus) and
\* true_positive is the number of entries with detected set.
C11_AccumulatorMatchesDetails ==
    /\ pc \in {"loop", "save"} =>
         /\ Len(results) = i
         /\ Len(detailed_results) = i
         /\ Cardinality(Detected(results)) = Cardinality(DetectedEntries(detailed_results))
         /\ \A k \in DOMAIN results :
              /\ results[k].has_error_detected = detailed_results[k].detected
              /\ results[k].sentence = detailed_results[k].original
    /\ Completed =>
         LET m == returned[1].metrics
             d == returned[1].detailed_results
         IN  /\ m.total_sentences = Len(d)
             /\ Len(d) = Len(sentences)
             /\ m.true_positive = Cardinality(DetectedEntries(d))
             /\ m.false_negative = Len(d) - Cardinality(DetectedEntries(d))

C11_Witness ==
    /\ Completed
    /\ Len(returned[1].detailed_results) = MaxLen
    /\ returned[1].metrics.true_positive = 1
    /\ returned[1].metrics.false_negative = MaxLen - 1
    /\ ~returned[1].detailed_results[MaxLen].detected

====
